---- MODULE Spec2Model ----
(***************************************************************************)
(* Model of the CSV -> relational database load pipeline:                  *)
(*   tool_service/connection.py   ConnectionHandler  (Pipeline Orchestrator)*)
(*   tool_service/transformer.py  DataTransformer                          *)
(*   tool_service/src/load_csv.py CSVLoader          (Tabular Reader)      *)
(*   tool_service/src/load_sql.py SQLDataFrameLoader (Relational Sink)     *)
(***************************************************************************)
EXTENDS Integers, Sequences, FiniteSets, TLC

(***************************************************************************)
(* Python values.  None is Python's None (JSON null); Absent marks a key   *)
(* that a mapping does not have.                                           *)
(***************************************************************************)
None == "<None>"
Absent == "<absent>"

\* dict.get(key) with the default None: m is the value stored for the key
DictGet(m) == IF m = Absent THEN None ELSE m

\* dict.get(key, default)
DictGetDefault(m, default) == IF m = Absent THEN default ELSE m

\* Python truthiness of None / str values
Truthy(v) == v # None /\ v # Absent /\ v # ""

(***************************************************************************)
(* Bounds of the model.                                                    *)
(***************************************************************************)
MaxRows == 2
MaxCols == 2

(***************************************************************************)
(* db_type values are strings, modelled as sequences of characters so that *)
(* str.lower() is computed character by character.                         *)
(***************************************************************************)
SQLITE == <<"s", "q", "l", "i", "t", "e">>
POSTGRESQL == <<"p", "o", "s", "t", "g", "r", "e", "s", "q", "l">>
MSSQL == <<"m", "s", "s", "q", "l">>
MixedSQLite == <<"S", "Q", "L", "i", "t", "e">>
UpperMSSQL == <<"M", "S", "S", "Q", "L">>
ORACLE == <<"o", "r", "a", "c", "l", "e">>
EmptyStr == <<>>
\* a db_type key that is present with the value null, and a missing db_type key
NoneDbType == <<None>>
AbsentDbType == <<Absent>>

DbTypeValues ==
    {SQLITE, POSTGRESQL, MSSQL, MixedSQLite, UpperMSSQL, ORACLE, EmptyStr, NoneDbType, AbsentDbType}

\* destination.get("db_type", "")
GetDbType(v) == IF v = AbsentDbType THEN EmptyStr ELSE v

SupportedDbTypes == {SQLITE, POSTGRESQL, MSSQL}

LowerChar(c) ==
    CASE c = "S" -> "s"
      [] c = "Q" -> "q"
      [] c = "L" -> "l"
      [] c = "M" -> "m"
      [] OTHER -> c

\* str.lower()
Lower(s) == [i \in DOMAIN s |-> LowerChar(s[i])]

(***************************************************************************)
(* Requests.  A request is a mapping; each of its entries "source" and     *)
(* "destination" is absent, null, a non-mapping JSON value or a mapping.   *)
(***************************************************************************)
PathValues == {Absent, "file.csv", "missing.csv"}
TableValues == {Absent, "users"}
EnvironmentValues == {Absent, "local"}

EmptySource == [shape |-> "map", type |-> Absent, path |-> Absent]
EmptyDestination == [shape |-> "map", type |-> Absent, table |-> Absent, db_type |-> AbsentDbType]

SourceMaps == [shape : {"map"}, type : {"csv"}, path : PathValues]
DestinationMaps == [shape : {"map"}, type : {"sql"}, table : TableValues,
                    db_type : {SQLITE, ORACLE, AbsentDbType}]

SourceValues ==
    SourceMaps \cup {[EmptySource EXCEPT !.shape = s] : s \in {"absent", "null", "nonmap"}}

DestinationValues ==
    DestinationMaps \cup {[EmptyDestination EXCEPT !.shape = s] : s \in {"absent", "null", "nonmap"}}

Requests == [environment : EnvironmentValues, source : SourceValues, destination : DestinationValues]

\* request.get(key, {}) : the default applies only when the key is absent
RequestGetOrEmpty(v, empty) == IF v.shape = "absent" THEN empty ELSE v

\* only a mapping has the attribute .get
HasGet(v) == v.shape = "map"

(***************************************************************************)
(* Relational Sink (tool_service/src/load_sql.py): destination configs.    *)
(***************************************************************************)
ConnectionValues ==
    [user : {Absent, "u@x"}, password : {Absent, "", "p w"}, host : {Absent},
     port : {Absent}, database : {Absent, "test.db"}]

SinkDestinations ==
    [db_type : DbTypeValues, database_name : {Absent, "mydb"}, connection : ConnectionValues,
     table : {Absent, "", "users"}, if_exists : {Absent, "append"}]

\* the operations of a constructed Sink never read the connection details:
\* the Sinks that are operated on use two of them, every one is constructed
OperatedConnections ==
    {c \in ConnectionValues :
        \/ c.user = Absent /\ c.password = Absent /\ c.database = Absent
        \/ c.user = "u@x" /\ c.password = "p w" /\ c.database = "test.db"}

OperatedDestinations == {d \in SinkDestinations : d.connection \in OperatedConnections}

\* urllib.parse.quote_plus on the credential strings of ConnectionValues
QuotePlus(s) ==
    CASE s = "u@x" -> "u%40x"
      [] s = "p w" -> "p+w"
      [] OTHER -> s

\* a builder whose last branch falls back to SQLite instead of raising
BuildConnectionString_Fallback(db_type, database_name, conn) ==
    [exc |-> None, str |-> <<"sqlite:///", database_name, ".db">>]

\* a builder that writes the password separator whether or not a password
\* is configured
BuildConnectionString_AlwaysSeparator(db_type, database_name, conn) ==
    IF db_type = NoneDbType
    THEN [exc |-> "AttributeError", str |-> <<>>]
    ELSE IF Lower(db_type) = SQLITE
    THEN LET db_file == IF Truthy(conn.database) THEN <<conn.database>>
                        ELSE <<database_name, ".db">>
         IN [exc |-> None, str |-> <<"sqlite:///">> \o db_file]
    ELSE IF Lower(db_type) = POSTGRESQL
    THEN [exc |-> None,
          str |-> <<"postgresql://", DictGetDefault(conn.user, "postgres"), ":",
                    DictGetDefault(conn.password, ""), "@",
                    DictGetDefault(conn.host, "localhost"), ":",
                    DictGetDefault(conn.port, "5432"), "/",
                    DictGetDefault(conn.database, database_name)>>]
    ELSE IF Lower(db_type) = MSSQL
    THEN [exc |-> None,
          str |-> <<"mssql+pymssql://", QuotePlus(DictGetDefault(conn.user, "root")), ":",
                    QuotePlus(DictGetDefault(conn.password, "")), "@",
                    DictGetDefault(conn.host, "localhost"), ":",
                    DictGetDefault(conn.port, "1433"), "/",
                    DictGetDefault(conn.database, database_name)>>]
    ELSE [exc |-> "ValueError: Unsupported database type", str |-> <<>>]

\* _build_connection_string: exc is the exception raised (None when none),
\* str the connection string as the sequence of its pieces
BuildConnectionString(db_type, database_name, conn) ==
    IF db_type = NoneDbType
    THEN [exc |-> "AttributeError", str |-> <<>>]
    ELSE IF Lower(db_type) = SQLITE
    THEN LET db_file == IF Truthy(conn.database) THEN <<conn.database>>
                        ELSE <<database_name, ".db">>
         IN [exc |-> None, str |-> <<"sqlite:///">> \o db_file]
    ELSE IF Lower(db_type) = POSTGRESQL
    THEN LET user == DictGetDefault(conn.user, "postgres")
             password == DictGetDefault(conn.password, "")
             host == DictGetDefault(conn.host, "localhost")
             port == DictGetDefault(conn.port, "5432")
             database == DictGetDefault(conn.database, database_name)
         IN IF Truthy(password)
            THEN [exc |-> None,
                  str |-> <<"postgresql://", user, ":", password, "@", host, ":", port, "/", database>>]
            ELSE [exc |-> None,
                  str |-> <<"postgresql://", user, "@", host, ":", port, "/", database>>]
    ELSE IF Lower(db_type) = MSSQL
    THEN LET user == DictGetDefault(conn.user, "root")
             password == DictGetDefault(conn.password, "")
             host == DictGetDefault(conn.host, "localhost")
             port == DictGetDefault(conn.port, "1433")
             database == DictGetDefault(conn.database, database_name)
             user_enc == IF Truthy(user) THEN QuotePlus(user) ELSE ""
         IN IF Truthy(password)
            THEN [exc |-> None,
                  str |-> <<"mssql+pymssql://", user_enc, ":", QuotePlus(password), "@",
                            host, ":", port, "/", database>>]
            ELSE [exc |-> None,
                  str |-> <<"mssql+pymssql://", user_enc, "@", host, ":", port, "/", database>>]
    ELSE [exc |-> "ValueError: Unsupported database type", str |-> <<>>]

\* _initialize_engine: create_engine is called only with a built connection
\* string; every exception is logged and re-raised.  engineExc is what
\* create_engine raises (None when it returns a handle).
InitializeEngine(db_type, database_name, conn, engineExc) ==
    LET cs == BuildConnectionString(db_type, database_name, conn) IN
    IF cs.exc # None
    THEN [raised |-> cs.exc, engine |-> None, create_engine_calls |-> <<>>]
    ELSE IF engineExc # None
    THEN [raised |-> engineExc, engine |-> None, create_engine_calls |-> <<cs.str>>]
    ELSE [raised |-> None, engine |-> "engine", create_engine_calls |-> <<cs.str>>]

\* what engine.connect() / connection.execute(text("SELECT 1")) may do
ConnectOutcomes ==
    {[at |-> "none", exc |-> None]} \cup
    [at : {"connect", "execute"}, exc : {"SQLAlchemyError", "Exception"}]

\* a connection test whose handlers catch only the database-layer error
TestConnectionResult_Propagates(db_type, database_name, o) ==
    IF o.exc = "Exception"
    THEN [raised |-> o.exc, fault |-> o.exc, calls |-> <<"connect">>, ret |-> None]
    ELSE [raised |-> None, fault |-> o.exc, calls |-> <<"connect", "execute">>,
          ret |-> [success |-> o.exc = None, message |-> <<"connection test">>,
                   db_type |-> db_type, database |-> database_name]]

\* test_connection
TestConnectionResult(db_type, database_name, o) ==
    LET dbcalls == IF o.at = "connect" THEN <<"connect">> ELSE <<"connect", "execute">> IN
    IF o.exc = None
    THEN [raised |-> None, fault |-> o.exc, calls |-> dbcalls,
          ret |-> [success |-> TRUE,
                   message |-> <<"Successfully connected to database: ", database_name>>,
                   db_type |-> db_type, database |-> database_name]]
    ELSE IF o.exc = "SQLAlchemyError"
    THEN [raised |-> None, fault |-> o.exc, calls |-> dbcalls,
          ret |-> [success |-> FALSE,
                   message |-> <<"Database connection test failed: ", o.exc>>,
                   db_type |-> db_type, database |-> database_name]]
    ELSE [raised |-> None, fault |-> o.exc, calls |-> dbcalls,
          ret |-> [success |-> FALSE,
                   message |-> <<"Unexpected error during connection test: ", o.exc>>,
                   db_type |-> db_type, database |-> database_name]]

\* first arguments of load_dataframe_to_sql: a DataFrame of some rows, or a
\* value that is no DataFrame (the Reader's failure payload)
DataframeValues == [kind : {"frame"}, rows : 0..MaxRows] \cup {[kind |-> "dict", rows |-> 0]}

TableParams == {None, "", "orders"}
IfExistsParams == {None, "fail", "replace", "append"}
ToSqlOutcomes == {None, "SQLAlchemyError", "Exception"}

\* a write without the check for an empty DataFrame
LoadDataframeToSql_NoEmptyCheck(destination, dataframe, table_name, if_exists, toSqlExc) ==
    LET table == IF Truthy(table_name) THEN table_name ELSE DictGet(destination.table)
        behavior == IF Truthy(if_exists) THEN if_exists
                    ELSE DictGetDefault(destination.if_exists, "replace")
        to_sql == [op |-> "to_sql", table |-> table, if_exists |-> behavior]
    IN IF ~Truthy(table)
       THEN [raised |-> None, fault |-> None, ret |-> FALSE, calls |-> <<>>]
       ELSE IF dataframe.kind # "frame"
       THEN [raised |-> None, fault |-> "AttributeError", ret |-> FALSE, calls |-> <<>>]
       ELSE IF toSqlExc # None
       THEN [raised |-> None, fault |-> toSqlExc, ret |-> FALSE, calls |-> <<to_sql>>]
       ELSE [raised |-> None, fault |-> None, ret |-> TRUE, calls |-> <<to_sql>>]

\* a write that prefers the configured table over the table-name parameter
LoadDataframeToSql_ConfigTableFirst(destination, dataframe, table_name, if_exists, toSqlExc) ==
    LET table == IF Truthy(destination.table) THEN destination.table ELSE table_name
        behavior == IF Truthy(if_exists) THEN if_exists
                    ELSE DictGetDefault(destination.if_exists, "replace")
        to_sql == [op |-> "to_sql", table |-> table, if_exists |-> behavior]
    IN IF ~Truthy(table)
       THEN [raised |-> None, fault |-> None, ret |-> FALSE, calls |-> <<>>]
       ELSE IF dataframe.kind # "frame"
       THEN [raised |-> None, fault |-> "AttributeError", ret |-> FALSE, calls |-> <<>>]
       ELSE IF dataframe.rows = 0
       THEN [raised |-> None, fault |-> None, ret |-> FALSE, calls |-> <<>>]
       ELSE IF toSqlExc # None
       THEN [raised |-> None, fault |-> toSqlExc, ret |-> FALSE, calls |-> <<to_sql>>]
       ELSE [raised |-> None, fault |-> None, ret |-> TRUE, calls |-> <<to_sql>>]

\* a write whose handlers catch only the database-layer error
LoadDataframeToSql_Propagates(destination, dataframe, table_name, if_exists, toSqlExc) ==
    LET table == IF Truthy(table_name) THEN table_name ELSE DictGet(destination.table)
        behavior == IF Truthy(if_exists) THEN if_exists
                    ELSE DictGetDefault(destination.if_exists, "replace")
        to_sql == [op |-> "to_sql", table |-> table, if_exists |-> behavior]
    IN IF ~Truthy(table)
       THEN [raised |-> None, fault |-> None, ret |-> FALSE, calls |-> <<>>]
       ELSE IF dataframe.kind # "frame"
       THEN [raised |-> "AttributeError", fault |-> "AttributeError", ret |-> FALSE,
             calls |-> <<>>]
       ELSE IF dataframe.rows = 0
       THEN [raised |-> None, fault |-> None, ret |-> FALSE, calls |-> <<>>]
       ELSE IF toSqlExc = "Exception"
       THEN [raised |-> toSqlExc, fault |-> toSqlExc, ret |-> FALSE, calls |-> <<to_sql>>]
       ELSE IF toSqlExc # None
       THEN [raised |-> None, fault |-> toSqlExc, ret |-> FALSE, calls |-> <<to_sql>>]
       ELSE [raised |-> None, fault |-> None, ret |-> TRUE, calls |-> <<to_sql>>]

\* a write that ignores the conflict policy of the destination config
LoadDataframeToSql_IgnoresConfigPolicy(destination, dataframe, table_name, if_exists, toSqlExc) ==
    LET table == IF Truthy(table_name) THEN table_name ELSE DictGet(destination.table)
        behavior == IF Truthy(if_exists) THEN if_exists ELSE "replace"
        to_sql == [op |-> "to_sql", table |-> table, if_exists |-> behavior]
    IN IF ~Truthy(table)
       THEN [raised |-> None, fault |-> None, ret |-> FALSE, calls |-> <<>>]
       ELSE IF dataframe.kind # "frame"
       THEN [raised |-> None, fault |-> "AttributeError", ret |-> FALSE, calls |-> <<>>]
       ELSE IF dataframe.rows = 0
       THEN [raised |-> None, fault |-> None, ret |-> FALSE, calls |-> <<>>]
       ELSE IF toSqlExc # None
       THEN [raised |-> None, fault |-> toSqlExc, ret |-> FALSE, calls |-> <<to_sql>>]
       ELSE [raised |-> None, fault |-> None, ret |-> TRUE, calls |-> <<to_sql>>]

\* a write that looks at the DataFrame before it resolves the table name
LoadDataframeToSql_EmptyCheckFirst(destination, dataframe, table_name, if_exists, toSqlExc) ==
    LET table == IF Truthy(table_name) THEN table_name ELSE DictGet(destination.table)
        behavior == IF Truthy(if_exists) THEN if_exists
                    ELSE DictGetDefault(destination.if_exists, "replace")
        to_sql == [op |-> "to_sql", table |-> table, if_exists |-> behavior]
    IN IF dataframe.kind # "frame"
       THEN [raised |-> None, fault |-> "AttributeError", ret |-> FALSE, calls |-> <<>>]
       ELSE IF dataframe.rows = 0
       THEN [raised |-> None, fault |-> None, ret |-> FALSE, calls |-> <<>>]
       ELSE IF ~Truthy(table)
       THEN [raised |-> None, fault |-> None, ret |-> FALSE, calls |-> <<>>]
       ELSE IF toSqlExc # None
       THEN [raised |-> None, fault |-> toSqlExc, ret |-> FALSE, calls |-> <<to_sql>>]
       ELSE [raised |-> None, fault |-> None, ret |-> TRUE, calls |-> <<to_sql>>]

\* load_dataframe_to_sql(dataframe, table_name, if_exists); toSqlExc is what
\* dataframe.to_sql raises (None when it returns)
LoadDataframeToSql(destination, dataframe, table_name, if_exists, toSqlExc) ==
    LET table == IF Truthy(table_name) THEN table_name ELSE DictGet(destination.table)
        behavior == IF Truthy(if_exists) THEN if_exists
                    ELSE DictGetDefault(destination.if_exists, "replace")
        to_sql == [op |-> "to_sql", table |-> table, if_exists |-> behavior]
    IN IF ~Truthy(table)
       THEN [raised |-> None, fault |-> None, ret |-> FALSE, calls |-> <<>>]
       ELSE IF dataframe.kind # "frame"
       THEN [raised |-> None, fault |-> "AttributeError", ret |-> FALSE, calls |-> <<>>]
       ELSE IF dataframe.rows = 0
       THEN [raised |-> None, fault |-> None, ret |-> FALSE, calls |-> <<>>]
       ELSE IF toSqlExc # None
       THEN [raised |-> None, fault |-> toSqlExc, ret |-> FALSE, calls |-> <<to_sql>>]
       ELSE [raised |-> None, fault |-> None, ret |-> TRUE, calls |-> <<to_sql>>]

(***************************************************************************)
(* Table inspection, close and CSV loading of the Sink.  A function that   *)
(* returns Optional[dict] is modelled as returning a sequence: <<>> for    *)
(* None, <<d>> for the dict d.                                             *)
(***************************************************************************)
\* column metadata as inspector.get_columns reports it
ColumnValues == {[name |-> "id", type |-> "INTEGER"], [name |-> "name", type |-> "TEXT"]}

ColumnLists == UNION {[1..n -> ColumnValues] : n \in 0..MaxCols}

InspectedTables == {"users", "orders"}

\* what inspect(engine), has_table and get_columns may do: at names the
\* call that raises ("none" when none does)
InspectOutcomes ==
    {[at |-> a, exists |-> TRUE, columns |-> <<>>] : a \in {"inspect", "has_table", "get_columns"}}
    \cup {[at |-> "none", exists |-> FALSE, columns |-> <<>>]}
    \cup {[at |-> "none", exists |-> TRUE, columns |-> c] : c \in ColumnLists}

\* [col["name"] for col in columns]
ColumnNames(columns) == [i \in DOMAIN columns |-> columns[i].name]

InspectCall == [op |-> "inspect", table |-> None, exists |-> FALSE, columns |-> <<>>]
HasTableCall(t, e) == [op |-> "has_table", table |-> t, exists |-> e, columns |-> <<>>]
GetColumnsCall(t, c) == [op |-> "get_columns", table |-> t, exists |-> TRUE, columns |-> c]

\* an inspection that reports one column too many
GetTableInfo_MiscountsColumns(table_name, o) ==
    [raised |-> None, fault |-> None,
     calls |-> <<InspectCall, HasTableCall(table_name, o.exists),
                 GetColumnsCall(table_name, o.columns)>>,
     ret |-> <<[table_name |-> table_name, columns |-> ColumnNames(o.columns),
                column_count |-> Len(o.columns) + 1]>>]

\* get_table_info(table_name)
GetTableInfo(table_name, o) ==
    IF o.at = "inspect"
    THEN [raised |-> None, fault |-> "Exception", ret |-> <<>>, calls |-> <<InspectCall>>]
    ELSE IF o.at = "has_table"
    THEN [raised |-> None, fault |-> "Exception", ret |-> <<>>,
          calls |-> <<InspectCall, HasTableCall(table_name, FALSE)>>]
    ELSE IF ~o.exists
    THEN [raised |-> None, fault |-> None, ret |-> <<>>,
          calls |-> <<InspectCall, HasTableCall(table_name, FALSE)>>]
    ELSE IF o.at = "get_columns"
    THEN [raised |-> None, fault |-> "Exception", ret |-> <<>>,
          calls |-> <<InspectCall, HasTableCall(table_name, TRUE),
                      GetColumnsCall(table_name, <<>>)>>]
    ELSE [raised |-> None, fault |-> None,
          calls |-> <<InspectCall, HasTableCall(table_name, TRUE),
                      GetColumnsCall(table_name, o.columns)>>,
          ret |-> <<[table_name |-> table_name, columns |-> ColumnNames(o.columns),
                     column_count |-> Len(o.columns)]>>]

\* what inspect(engine) and get_table_names may do
ListOutcomes ==
    {[at |-> a, tables |-> <<>>] : a \in {"inspect", "get_table_names"}}
    \cup {[at |-> "none", tables |-> t] : t \in {<<>>, <<"users">>, <<"users", "orders">>}}

\* list_tables()
ListTablesResult(o) ==
    IF o.at = "inspect"
    THEN [raised |-> None, fault |-> "Exception", ret |-> <<>>, calls |-> <<"inspect">>]
    ELSE IF o.at = "get_table_names"
    THEN [raised |-> None, fault |-> "Exception", ret |-> <<>>,
          calls |-> <<"inspect", "get_table_names">>]
    ELSE [raised |-> None, fault |-> None, ret |-> o.tables,
          calls |-> <<"inspect", "get_table_names">>]

\* a close that lets the exception of dispose escape
CloseResult_Propagates(engine, disposeExc) ==
    [raised |-> disposeExc, fault |-> disposeExc, ret |-> None, calls |-> <<"dispose">>]

\* close(): disposeExc is what engine.dispose() raises (None when it returns)
CloseResult(engine, disposeExc) ==
    IF engine = None
    THEN [raised |-> None, fault |-> None, ret |-> None, calls |-> <<>>]
    ELSE [raised |-> None, fault |-> disposeExc, ret |-> None, calls |-> <<"dispose">>]

\* what pd.read_csv may do inside load_csv_to_database
ReadCsvOutcomes ==
    {[exc |-> e, rows |-> 0] : e \in {"FileNotFoundError", "ParserError", "Exception"}}
    \cup {[exc |-> None, rows |-> n] : n \in 0..MaxRows}

\* load_csv_to_database(csv_file_path, table_name, if_exists)
LoadCsvToDatabase(destination, read, table_name, if_exists, toSqlExc) ==
    IF read.exc # None
    THEN [raised |-> None, fault |-> read.exc, ret |-> FALSE, calls |-> <<>>]
    ELSE LoadDataframeToSql(destination, [kind |-> "frame", rows |-> read.rows],
                            table_name, if_exists, toSqlExc)

VARIABLES
    request,      \* the request passed to handle_request
    files,        \* paths that exist in the file system
    csvRows,      \* number of data rows of an existing file
    dbReachable,  \* whether the destination database answers SELECT 1
    pc,           \* Orchestrator state of the run
    response,     \* value returned by handle_request
    raised,       \* exception that left handle_request, or None
    dtCalls,      \* arguments of each DT().transform_data invocation
    dtOutcome,    \* "none", "returned" or "raised": how transform_data ended
    dtReturn,     \* the value transform_data returned
    calls,        \* collaborator calls made inside transform_data, in order
    sPhase,       \* Sink: "new", "constructed" or "failed" (constructor raised)
    sDestination, \* Sink: self.destination
    sDbType,      \* Sink: self.db_type
    sDatabaseName, \* Sink: self.database_name
    sConn,        \* Sink: self.connection_details
    sEngine,      \* Sink: self.engine
    sCreateEngineCalls, \* connection strings passed to create_engine
    sOp,          \* last Sink operation
    sArgs,        \* its arguments
    sRet,         \* the value it returned
    sRaised,      \* the exception it raised, or None
    sFault,       \* the exception that occurred inside it, or None
    sCalls,       \* database calls it made, in order
    rOp,          \* Reader: which load_csv ran last ("none" before any)
    rPath,        \* its file_path argument
    rRet,         \* the value it returned
    rRaised,      \* the exception it raised, or None
    rFault        \* the exception that occurred inside it, or None

hvars == <<request, files, csvRows, dbReachable, pc, response, raised, dtCalls, dtOutcome,
           dtReturn, calls>>

svars == <<sPhase, sDestination, sDbType, sDatabaseName, sConn, sEngine, sCreateEngineCalls,
           sOp, sArgs, sRet, sRaised, sFault, sCalls>>

rvars == <<rOp, rPath, rRet, rRaised, rFault>>

vars == <<hvars, svars, rvars>>

NoResult == [kind |-> "none", source_path |-> None, table_name |-> None]
NoResponse == [status |-> "none", environment |-> Absent, result |-> NoResult, error |-> <<>>]

(***************************************************************************)
(* Tabular Reader used by the transformer (tool_service/src/load_csv.py).  *)
(***************************************************************************)
\* _read_csv_file: open() raises FileNotFoundError for a missing file and
\* TypeError for the path None
ReadCsvFile(file_path) ==
    IF file_path = None THEN [exc |-> "TypeError", rows |-> 0]
    ELSE IF file_path \notin files THEN [exc |-> "FileNotFoundError", rows |-> 0]
    ELSE [exc |-> None, rows |-> csvRows]

\* CSVLoader.load_csv: never raises, returns a success or a failure payload
LoadCsv(file_path) ==
    LET r == ReadCsvFile(file_path) IN
    IF r.exc = None
    THEN [status |-> "success", file_path |-> file_path, row_count |-> r.rows, error |-> <<>>]
    ELSE IF r.exc = "FileNotFoundError"
    THEN [status |-> "failed", file_path |-> Absent, row_count |-> 0,
          error |-> <<"File not found: ", file_path>>]
    ELSE [status |-> "failed", file_path |-> Absent, row_count |-> 0,
          error |-> <<r.exc>>]

(***************************************************************************)
(* Tabular Reader (tool_service/src/read_csv.py, the pandas loader, and    *)
(* tool_service/src/load_csv.py) called on its own.  What a loader returns *)
(* is kept as [kind, rows, status, error]: kind "frame" is a DataFrame of  *)
(* rows rows, kind "dict" a payload with status and error.                 *)
(***************************************************************************)
ReaderFiles == {"file.csv", "data.csv"}
ReaderPaths == {None, "file.csv", "data.csv", "missing.csv"}

\* what pd.read_csv raises on a file that exists (None when it parses)
ParseOutcomes == {None, "ParserError", "UnicodeDecodeError"}

NoPayload == [kind |-> "none", rows |-> 0, status |-> Absent, error |-> <<>>]

\* pd.read_csv(file_path)
PandasReadCsv(file_path, parseExc) ==
    IF file_path = None THEN [exc |-> "ValueError", rows |-> 0]
    ELSE IF file_path \notin files THEN [exc |-> "FileNotFoundError", rows |-> 0]
    ELSE IF parseExc # None THEN [exc |-> parseExc, rows |-> 0]
    ELSE [exc |-> None, rows |-> csvRows]

\* a loader that handles only the missing file
PandasLoadCsv_Propagates(file_path, parseExc) ==
    LET r == PandasReadCsv(file_path, parseExc) IN
    IF r.exc = None
    THEN [raised |-> None, fault |-> None,
          ret |-> [kind |-> "frame", rows |-> r.rows, status |-> Absent, error |-> <<>>]]
    ELSE IF r.exc = "FileNotFoundError"
    THEN [raised |-> None, fault |-> r.exc,
          ret |-> [kind |-> "dict", rows |-> 0, status |-> "failed",
                   error |-> <<"File not found: ", file_path>>]]
    ELSE [raised |-> r.exc, fault |-> r.exc, ret |-> NoPayload]

\* read_csv.CSVLoader.load_csv
PandasLoadCsv(file_path, parseExc) ==
    LET r == PandasReadCsv(file_path, parseExc) IN
    IF r.exc = None
    THEN [raised |-> None, fault |-> None,
          ret |-> [kind |-> "frame", rows |-> r.rows, status |-> Absent, error |-> <<>>]]
    ELSE IF r.exc = "FileNotFoundError"
    THEN [raised |-> None, fault |-> r.exc,
          ret |-> [kind |-> "dict", rows |-> 0, status |-> "failed",
                   error |-> <<"File not found: ", file_path>>]]
    ELSE [raised |-> None, fault |-> r.exc,
          ret |-> [kind |-> "dict", rows |-> 0, status |-> "failed", error |-> <<r.exc>>]]

\* no Reader call: the state of the Reader variables in the other runs
RIdle ==
    /\ rOp = "none"
    /\ rPath = None
    /\ rRet = NoPayload
    /\ rRaised = None
    /\ rFault = None

\* the file system a Reader is called in
RInit ==
    /\ RIdle
    /\ request = CHOOSE r \in Requests : TRUE
    /\ files \in SUBSET ReaderFiles
    /\ csvRows \in 0..MaxRows
    /\ dbReachable = FALSE
    /\ pc = "Idle"
    /\ response = NoResponse
    /\ raised = None
    /\ dtCalls = <<>>
    /\ dtOutcome = "none"
    /\ dtReturn = NoResult
    /\ calls = <<>>

\* read_csv.CSVLoader().load_csv(file_path)
ReadCsvLoad(file_path, parseExc) ==
    /\ LET r == PandasLoadCsv(file_path, parseExc)
       IN /\ rRet' = r.ret
          /\ rRaised' = r.raised
          /\ rFault' = r.fault
    /\ rOp' = "read_csv.load_csv"
    /\ rPath' = file_path
    /\ UNCHANGED <<hvars, svars>>

\* load_csv.CSVLoader().load_csv(file_path): the payload is a dict in both
\* outcomes, with the rows under "data" on success
LoadCsvLoad(file_path) ==
    /\ LET r == LoadCsv(file_path)
       IN rRet' = [kind |-> "dict", rows |-> r.row_count, status |-> r.status,
                   error |-> r.error]
    /\ rRaised' = None
    /\ rFault' = ReadCsvFile(file_path).exc
    /\ rOp' = "load_csv.load_csv"
    /\ rPath' = file_path
    /\ UNCHANGED <<hvars, svars>>

RNext ==
    \/ \E file_path \in ReaderPaths, parseExc \in ParseOutcomes : ReadCsvLoad(file_path, parseExc)
    \/ \E file_path \in ReaderPaths : LoadCsvLoad(file_path)

(***************************************************************************)
(* DataTransformer (tool_service/transformer.py).                          *)
(***************************************************************************)
\* _build_transform_result: reads the CSV, drops what the Reader returned
\* and builds a message
BuildTransformResult(source_path, table_name) ==
    [value |-> [kind |-> "message", source_path |-> source_path, table_name |-> table_name],
     calls |-> <<[op |-> "load_csv", arg |-> source_path, ret |-> LoadCsv(source_path).status]>>]

\* transform_data(source, destination)
TransformData(source, destination) ==
    LET source_path == DictGet(source.path)
        table_name == DictGet(destination.table)
    IN BuildTransformResult(source_path, table_name)

(***************************************************************************)
(* ConnectionHandler (tool_service/connection.py).                         *)
(***************************************************************************)
\* a success response that loses the environment
SuccessResponse_NoEnvironment(environment, result) ==
    [status |-> "success", environment |-> None, result |-> result, error |-> <<>>]

SuccessResponse(environment, result) ==
    [status |-> "success", environment |-> environment, result |-> result, error |-> <<>>]

ErrorResponse(error) ==
    [status |-> "failed", environment |-> Absent, result |-> NoResult, error |-> <<error>>]

HInit ==
    /\ request \in Requests
    /\ files \in {{}, {"file.csv"}}
    /\ csvRows \in 0..MaxRows
    /\ dbReachable \in BOOLEAN
    /\ pc = "Received"
    /\ response = NoResponse
    /\ raised = None
    /\ dtCalls = <<>>
    /\ dtOutcome = "none"
    /\ dtReturn = NoResult
    /\ calls = <<>>

\* handle_request, lines 13-19: extraction and logging of the request
\* details happen before the try block
ExtractRequest ==
    /\ pc = "Received"
    /\ LET source == RequestGetOrEmpty(request.source, EmptySource)
           destination == RequestGetOrEmpty(request.destination, EmptyDestination)
       IN IF HasGet(source) /\ HasGet(destination)
          THEN /\ pc' = "Transforming"
               /\ raised' = raised
          ELSE /\ pc' = "Raised"
               /\ raised' = "AttributeError"
    /\ UNCHANGED <<request, files, csvRows, dbReachable, response, dtCalls, dtOutcome,
                   dtReturn, calls>>
    /\ UNCHANGED <<svars, rvars>>

\* handle_request, lines 21-23: transform_data returned
TransformReturns ==
    /\ pc = "Transforming"
    /\ LET environment == DictGet(request.environment)
           source == RequestGetOrEmpty(request.source, EmptySource)
           destination == RequestGetOrEmpty(request.destination, EmptyDestination)
           r == TransformData(source, destination)
       IN /\ dtCalls' = Append(dtCalls, [source |-> source, destination |-> destination])
          /\ calls' = calls \o r.calls
          /\ dtReturn' = r.value
          /\ response' = SuccessResponse(environment, r.value)
    /\ dtOutcome' = "returned"
    /\ pc' = "Succeeded"
    /\ UNCHANGED <<request, files, csvRows, dbReachable, raised>>
    /\ UNCHANGED <<svars, rvars>>

\* handle_request, lines 24-26: an exception left DT().transform_data (the
\* transformer itself catches nothing, so whatever a collaborator or the
\* logger raises inside it arrives here, as in test_handle_request_failure)
TransformRaises ==
    /\ pc = "Transforming"
    /\ LET source == RequestGetOrEmpty(request.source, EmptySource)
           destination == RequestGetOrEmpty(request.destination, EmptyDestination)
       IN dtCalls' = Append(dtCalls, [source |-> source, destination |-> destination])
    /\ response' = ErrorResponse("Pipeline error")
    /\ dtOutcome' = "raised"
    /\ pc' = "Failed"
    /\ UNCHANGED <<request, files, csvRows, dbReachable, raised, dtReturn, calls>>
    /\ UNCHANGED <<svars, rvars>>

HNext == ExtractRequest \/ TransformReturns \/ TransformRaises

(***************************************************************************)
(* SQLDataFrameLoader: the Sink object and its operations.                 *)
(***************************************************************************)
NoArgs == [dataframe |-> [kind |-> "dict", rows |-> 0], table_name |-> None, if_exists |-> None]

\* no Sink: the state of the Sink variables while the Orchestrator runs
SIdle ==
    /\ sPhase = "none"
    /\ sDestination = CHOOSE d \in SinkDestinations : TRUE
    /\ sDbType = EmptyStr
    /\ sDatabaseName = ""
    /\ sConn = (CHOOSE d \in SinkDestinations : TRUE).connection
    /\ sEngine = None
    /\ sCreateEngineCalls = <<>>
    /\ sOp = "none"
    /\ sArgs = NoArgs
    /\ sRet = None
    /\ sRaised = None
    /\ sFault = None
    /\ sCalls = <<>>

\* no request: the state of the Orchestrator variables while a Sink is used
HIdle ==
    /\ request = CHOOSE r \in Requests : TRUE
    /\ files = {}
    /\ csvRows = 0
    /\ dbReachable = FALSE
    /\ pc = "Idle"
    /\ response = NoResponse
    /\ raised = None
    /\ dtCalls = <<>>
    /\ dtOutcome = "none"
    /\ dtReturn = NoResult
    /\ calls = <<>>

\* SQLDataFrameLoader(logger, destination) is about to be called with a
\* destination of the set D
SInitFrom(D) ==
    /\ sPhase = "new"
    /\ sDestination \in D
    /\ sDbType = EmptyStr
    /\ sDatabaseName = ""
    /\ sConn = sDestination.connection
    /\ sEngine = None
    /\ sCreateEngineCalls = <<>>
    /\ sOp = "none"
    /\ sArgs = NoArgs
    /\ sRet = None
    /\ sRaised = None
    /\ sFault = None
    /\ sCalls = <<>>

SInit == SInitFrom(OperatedDestinations)

\* __init__: sets the fields, then _initialize_engine
Construct(engineExc) ==
    /\ sPhase = "new"
    /\ LET db_type == GetDbType(sDestination.db_type)
           database_name == DictGetDefault(sDestination.database_name, "")
           r == InitializeEngine(db_type, database_name, sDestination.connection, engineExc)
       IN /\ sDbType' = db_type
          /\ sDatabaseName' = database_name
          /\ sConn' = sDestination.connection
          /\ sEngine' = r.engine
          /\ sCreateEngineCalls' = r.create_engine_calls
          /\ sRaised' = r.raised
          /\ sFault' = r.raised
          /\ sPhase' = IF r.raised = None THEN "constructed" ELSE "failed"
    /\ sOp' = "__init__"
    /\ UNCHANGED <<sDestination, sArgs, sRet, sCalls>>
    /\ UNCHANGED <<hvars, rvars>>

\* test_connection()
TestConnection(o) ==
    /\ sPhase = "constructed"
    /\ LET r == TestConnectionResult(sDbType, sDatabaseName, o)
       IN /\ sRet' = r.ret
          /\ sRaised' = r.raised
          /\ sFault' = r.fault
          /\ sCalls' = r.calls
    /\ sOp' = "test_connection"
    /\ sArgs' = NoArgs
    /\ UNCHANGED <<sPhase, sDestination, sDbType, sDatabaseName, sConn, sEngine,
                   sCreateEngineCalls>>
    /\ UNCHANGED <<hvars, rvars>>

\* load_dataframe_to_sql(dataframe, table_name, if_exists)
LoadDataframe(dataframe, table_name, if_exists, toSqlExc) ==
    /\ sPhase = "constructed"
    /\ LET r == LoadDataframeToSql(sDestination, dataframe, table_name, if_exists, toSqlExc)
       IN /\ sRet' = r.ret
          /\ sRaised' = r.raised
          /\ sFault' = r.fault
          /\ sCalls' = r.calls
    /\ sOp' = "load_dataframe_to_sql"
    /\ sArgs' = [dataframe |-> dataframe, table_name |-> table_name, if_exists |-> if_exists]
    /\ UNCHANGED <<sPhase, sDestination, sDbType, sDatabaseName, sConn, sEngine,
                   sCreateEngineCalls>>
    /\ UNCHANGED <<hvars, rvars>>

\* get_table_info(table_name)
GetTableInfoOp(table_name, o) ==
    /\ sPhase = "constructed"
    /\ LET r == GetTableInfo(table_name, o)
       IN /\ sRet' = r.ret
          /\ sRaised' = r.raised
          /\ sFault' = r.fault
          /\ sCalls' = r.calls
    /\ sOp' = "get_table_info"
    /\ sArgs' = [NoArgs EXCEPT !.table_name = table_name]
    /\ UNCHANGED <<sPhase, sDestination, sDbType, sDatabaseName, sConn, sEngine,
                   sCreateEngineCalls>>
    /\ UNCHANGED <<hvars, rvars>>

\* list_tables()
ListTables(o) ==
    /\ sPhase = "constructed"
    /\ LET r == ListTablesResult(o)
       IN /\ sRet' = r.ret
          /\ sRaised' = r.raised
          /\ sFault' = r.fault
          /\ sCalls' = r.calls
    /\ sOp' = "list_tables"
    /\ sArgs' = NoArgs
    /\ UNCHANGED <<sPhase, sDestination, sDbType, sDatabaseName, sConn, sEngine,
                   sCreateEngineCalls>>
    /\ UNCHANGED <<hvars, rvars>>

\* a close that also clears the engine handle
Close_ClearsHandle(disposeExc) ==
    /\ sPhase = "constructed"
    /\ sEngine' = None
    /\ sRet' = None
    /\ sRaised' = None
    /\ sFault' = disposeExc
    /\ sCalls' = <<"dispose">>
    /\ sOp' = "close"
    /\ sArgs' = NoArgs
    /\ UNCHANGED <<sPhase, sDestination, sDbType, sDatabaseName, sConn, sCreateEngineCalls>>
    /\ UNCHANGED <<hvars, rvars>>

\* close()
Close(disposeExc) ==
    /\ sPhase = "constructed"
    /\ LET r == CloseResult(sEngine, disposeExc)
       IN /\ sRet' = r.ret
          /\ sRaised' = r.raised
          /\ sFault' = r.fault
          /\ sCalls' = r.calls
    /\ sOp' = "close"
    /\ sArgs' = NoArgs
    /\ UNCHANGED <<sPhase, sDestination, sDbType, sDatabaseName, sConn, sEngine,
                   sCreateEngineCalls>>
    /\ UNCHANGED <<hvars, rvars>>

\* load_csv_to_database(csv_file_path, table_name, if_exists); sArgs keeps the
\* DataFrame that was read and handed to load_dataframe_to_sql
LoadCsvToDatabaseOp(read, table_name, if_exists, toSqlExc) ==
    /\ sPhase = "constructed"
    /\ LET r == LoadCsvToDatabase(sDestination, read, table_name, if_exists, toSqlExc)
       IN /\ sRet' = r.ret
          /\ sRaised' = r.raised
          /\ sFault' = r.fault
          /\ sCalls' = r.calls
    /\ sOp' = "load_csv_to_database"
    /\ sArgs' = [dataframe |-> IF read.exc = None THEN [kind |-> "frame", rows |-> read.rows]
                               ELSE NoArgs.dataframe,
                 table_name |-> table_name, if_exists |-> if_exists]
    /\ UNCHANGED <<sPhase, sDestination, sDbType, sDatabaseName, sConn, sEngine,
                   sCreateEngineCalls>>
    /\ UNCHANGED <<hvars, rvars>>

SNext ==
    \/ \E engineExc \in {None, "ArgumentError"} : Construct(engineExc)
    \/ \E o \in ConnectOutcomes : TestConnection(o)
    \/ \E dataframe \in DataframeValues, table_name \in TableParams,
          if_exists \in IfExistsParams, toSqlExc \in ToSqlOutcomes :
            LoadDataframe(dataframe, table_name, if_exists, toSqlExc)
    \/ \E table_name \in InspectedTables, o \in InspectOutcomes : GetTableInfoOp(table_name, o)
    \/ \E o \in ListOutcomes : ListTables(o)
    \/ \E disposeExc \in {None, "Exception"} : Close(disposeExc)
    \/ \E read \in ReadCsvOutcomes, table_name \in TableParams, if_exists \in {None, "fail"},
          toSqlExc \in {None, "SQLAlchemyError"} :
            LoadCsvToDatabaseOp(read, table_name, if_exists, toSqlExc)

(***************************************************************************)
(* Specifications: one handle_request run; one Sink and its operations.    *)
(***************************************************************************)
Init == HInit /\ SIdle /\ RIdle

Next == HNext

Spec == Init /\ [][Next]_vars

SinkInit == SInit /\ HIdle /\ RIdle

SinkNext == SNext

SinkSpec == SinkInit /\ [][SinkNext]_vars

\* construction alone, over every destination config
ConstructInit == SInitFrom(SinkDestinations) /\ HIdle /\ RIdle

ConstructNext == \E engineExc \in {None, "ArgumentError"} : Construct(engineExc)

ConstructSpec == ConstructInit /\ [][ConstructNext]_vars

\* the Reader called on its own
ReaderInit == RInit /\ SIdle

ReaderNext == RNext

ReaderSpec == ReaderInit /\ [][ReaderNext]_vars

(***************************************************************************)
(* Properties of the Orchestrator (checked under Spec).                    *)
(***************************************************************************)
\* what the request hands to transform_data
RequestSource == RequestGetOrEmpty(request.source, EmptySource)
RequestDestination == RequestGetOrEmpty(request.destination, EmptyDestination)

Returned == pc \in {"Succeeded", "Failed"}

EmptyConnection ==
    [user |-> Absent, password |-> Absent, host |-> Absent, port |-> Absent, database |-> Absent]

\* constructing a Sink from the request's destination raises
SinkConstructionFails ==
    InitializeEngine(GetDbType(RequestDestination.db_type), "", EmptyConnection, None).raised # None

CallsOf(op) == {i \in DOMAIN calls : calls[i].op = op}

\* C1: handle_request returns a response for every request and never
\* raises; an exception at any step, extraction and logging included,
\* yields {status: "failed", error: <message>}.
C1_HandleRequestNeverRaises ==
    /\ raised = None
    /\ pc # "Raised"
    /\ dtOutcome = "raised" => response = ErrorResponse("Pipeline error")

\* C2: the Sink's write is never invoked unless test_connection was invoked
\* earlier in the run and returned success; when the connection test fails,
\* transform_data returns the Sink's failure payload and attempts no write.
C2_WriteOnlyAfterConnectionTest ==
    /\ \A i \in CallsOf("load_dataframe_to_sql") :
          \E j \in CallsOf("test_connection") : j < i /\ calls[j].ret = "success"
    /\ (dtOutcome = "returned" /\ ~SinkConstructionFails /\ ~dbReachable) =>
          /\ dtReturn.kind = "connection_failure"
          /\ CallsOf("test_connection") # {}
          /\ CallsOf("load_dataframe_to_sql") = {}

\* C3: when the Reader returns a structure and the connection test
\* succeeds, transform_data invokes test_connection once, then write once
\* with the destination table, and returns what write returned.
C3_WriteOnceAfterSuccessfulTest ==
    (/\ dtOutcome = "returned"
     /\ RequestSource.path \in files
     /\ ~SinkConstructionFails
     /\ dbReachable) =>
        /\ Cardinality(CallsOf("test_connection")) = 1
        /\ Cardinality(CallsOf("load_dataframe_to_sql")) = 1
        /\ \A i \in CallsOf("load_dataframe_to_sql") :
              calls[i].arg = DictGet(RequestDestination.table)
        /\ dtReturn.kind = "write_result"

\* C4: a request whose source path does not exist gets a "failed" response
\* whose error contains "File not found", never a "success" response.
C4_MissingFileFails ==
    (/\ Returned
     /\ dtOutcome # "raised"
     /\ RequestSource.path \notin {Absent, None}
     /\ RequestSource.path \notin files) =>
        /\ response.status = "failed"
        /\ \E i \in DOMAIN response.error : response.error[i] = "File not found: "

\* C5: a request whose destination makes Sink construction fail is aborted
\* before any connection test or write and gets a "failed" response, never
\* a "success" response.
C5_SinkConstructionFailureFails ==
    (Returned /\ SinkConstructionFails) =>
        /\ response.status = "failed"
        /\ CallsOf("test_connection") = {}
        /\ CallsOf("load_dataframe_to_sql") = {}

\* C7: whenever transform_data returns without raising, handle_request
\* returns exactly {status: "success", environment, result} with the
\* request's environment (None when absent) and the unchanged value
\* transform_data returned, and transform_data was invoked exactly once
\* with the request's source and destination.
C7_SuccessResponseShape ==
    dtOutcome = "returned" =>
        /\ pc = "Succeeded"
        /\ raised = None
        /\ response = [status |-> "success",
                       environment |-> IF request.environment = Absent THEN None
                                       ELSE request.environment,
                       result |-> dtReturn,
                       error |-> <<>>]
        /\ dtReturn # NoResult
        /\ Len(dtCalls) = 1
        /\ dtCalls[1].source = RequestSource
        /\ dtCalls[1].destination = RequestDestination

C7_Witness ==
    /\ pc = "Succeeded"
    /\ dtOutcome = "returned"
    /\ request.environment = "local"
    /\ response.environment = "local"
    /\ response.result.kind = "message"

\* C8: every run moves through Received, Transforming and then exactly one
\* of Succeeded or Failed; a run that is over is in a terminal state, and
\* the response status is "success" exactly in Succeeded and "failed"
\* exactly in Failed.
C8_RunEndsInTerminalState ==
    /\ pc \in {"Received", "Transforming", "Succeeded", "Failed"}
    /\ response.status = "success" <=> pc = "Succeeded"
    /\ response.status = "failed" <=> pc = "Failed"
    /\ pc \in {"Received", "Transforming"} => response = NoResponse

(***************************************************************************)
(* Properties of the Sink (checked under SinkSpec).                        *)
(***************************************************************************)
UnsupportedError == "ValueError: Unsupported database type"

Constructing == sPhase \in {"constructed", "failed"}

\* C6 as stated: construction succeeds only when db_type is exactly one of
\* sqlite, postgresql, mssql; every other db_type value (absent, empty or
\* differently cased) raises the unsupported-engine error, with no engine
\* factory call and the engine handle unset.
C6_ExactDbTypeOnly ==
    /\ sPhase = "constructed" => sDestination.db_type \in SupportedDbTypes
    /\ (Constructing /\ sDestination.db_type \notin SupportedDbTypes) =>
          /\ sPhase = "failed"
          /\ sRaised = UnsupportedError
          /\ sCreateEngineCalls = <<>>
          /\ sEngine = None

\* C6 amended: construction succeeds only when db_type is a string whose
\* lower-cased form is one of sqlite, postgresql, mssql; for every other
\* db_type construction raises (the unsupported-engine error when db_type
\* is a string, absent or empty; an attribute error when it is null), no
\* engine factory call is made and the engine handle stays unset.
C6_LowerCasedDbType ==
    /\ sPhase = "constructed" =>
          /\ sDestination.db_type \notin {NoneDbType, AbsentDbType}
          /\ Lower(sDestination.db_type) \in SupportedDbTypes
          /\ sEngine # None
    /\ (Constructing /\ Lower(sDestination.db_type) \notin SupportedDbTypes) =>
          /\ sPhase = "failed"
          /\ sRaised = IF sDestination.db_type = NoneDbType THEN "AttributeError"
                       ELSE UnsupportedError
          /\ sCreateEngineCalls = <<>>
          /\ sEngine = None

C6_Witness ==
    /\ sPhase = "failed"
    /\ sDestination.db_type = ORACLE
    /\ sRaised = UnsupportedError
    /\ sCreateEngineCalls = <<>>

\* C9: test_connection never raises; when connecting or executing SELECT 1
\* fails with a database-layer error or any other exception the result has
\* success = false and a message; every result carries exactly the fields
\* success, message, db_type and database.
C9_TestConnectionNeverRaises ==
    sOp = "test_connection" =>
        /\ sRaised = None
        /\ DOMAIN sRet = {"success", "message", "db_type", "database"}
        /\ sRet.success \in BOOLEAN
        /\ sRet.message # <<>>
        /\ sFault # None => sRet.success = FALSE
        /\ sRet.db_type = sDbType
        /\ sRet.database = sDatabaseName

C9_Witness ==
    /\ sOp = "test_connection"
    /\ sFault = "Exception"
    /\ sCalls = <<"connect">>
    /\ sRaised = None
    /\ sRet.success = FALSE

\* C10: load_dataframe_to_sql called with a DataFrame of zero rows returns
\* false, raises nothing and makes no database write call, whatever the
\* table-name parameter, the conflict-policy parameter and the destination.
C10_EmptyDataframeNotWritten ==
    (/\ sOp = "load_dataframe_to_sql"
     /\ sArgs.dataframe.kind = "frame"
     /\ sArgs.dataframe.rows = 0) =>
        /\ sRet = FALSE
        /\ sRaised = None
        /\ sCalls = <<>>

C10_Witness ==
    /\ sOp = "load_dataframe_to_sql"
    /\ sArgs.dataframe = [kind |-> "frame", rows |-> 0]
    /\ sArgs.table_name = "orders"
    /\ sArgs.if_exists = "append"
    /\ sRet = FALSE
    /\ sCalls = <<>>

\* the write whose result the Sink variables hold
WriteDone == sOp = "load_dataframe_to_sql"

\* a table-name / conflict-policy parameter was passed
TableGiven == sArgs.table_name \notin {None, ""}
PolicyGiven == sArgs.if_exists \notin {None, ""}

HasConfigTable == sDestination.table \notin {Absent, None, ""}

\* the table name and the conflict policy the claims expect the write to use
ExpectedTable == IF TableGiven THEN sArgs.table_name ELSE sDestination.table
ExpectedPolicy ==
    IF PolicyGiven THEN sArgs.if_exists
    ELSE IF sDestination.if_exists # Absent THEN sDestination.if_exists
    ELSE "replace"

ToSqlCalls == {i \in DOMAIN sCalls : sCalls[i].op = "to_sql"}

\* C11: load_dataframe_to_sql called without a table-name parameter on a
\* Sink whose config has no (or an empty) table returns false, raises
\* nothing and makes no database write call, whatever the input; otherwise
\* the table written is the parameter when given, else destination.table.
C11_TableNameResolution ==
    WriteDone =>
        /\ (~TableGiven /\ ~HasConfigTable) =>
              /\ sRet = FALSE
              /\ sRaised = None
              /\ sCalls = <<>>
        /\ \A i \in ToSqlCalls : sCalls[i].table = ExpectedTable

C11_Witness ==
    /\ WriteDone
    /\ sArgs.table_name = None
    /\ sDestination.table = ""
    /\ sArgs.dataframe = [kind |-> "frame", rows |-> 1]
    /\ sRet = FALSE
    /\ sCalls = <<>>

\* C12: load_dataframe_to_sql never raises; when the table write fails with
\* a database-layer error or any other exception, and when the first
\* argument is no tabular structure, it returns false.
C12_WriteNeverRaises ==
    WriteDone =>
        /\ sRaised = None
        /\ sRet \in BOOLEAN
        /\ sFault # None => sRet = FALSE
        /\ sArgs.dataframe.kind # "frame" => sRet = FALSE

C12_Witness ==
    /\ WriteDone
    /\ sArgs.dataframe.kind = "dict"
    /\ TableGiven
    /\ sFault = "AttributeError"
    /\ sRaised = None
    /\ sRet = FALSE

\* C13: the conflict policy passed to the database write is the if_exists
\* parameter when given, else destination.if_exists when configured, else
\* "replace"; it is always one of fail, replace, append.
C13_ConflictPolicyResolution ==
    WriteDone =>
        \A i \in ToSqlCalls :
            /\ sCalls[i].if_exists = ExpectedPolicy
            /\ sCalls[i].if_exists \in {"fail", "replace", "append"}

C13_Witness ==
    /\ WriteDone
    /\ sArgs.if_exists = None
    /\ sDestination.if_exists = "append"
    /\ sCalls = <<[op |-> "to_sql", table |-> "users", if_exists |-> "append"]>>

\* C19: load_dataframe_to_sql returns true only if the table name resolved
\* to a non-empty value, the input had at least one row and exactly one
\* database write call, with the resolved table and policy, completed
\* without an exception; in every other case it returns false, and the
\* table name is checked before the input is looked at.
C19_TrueOnlyAfterOneCompletedWrite ==
    WriteDone =>
        /\ sRet \in BOOLEAN
        /\ sRet = TRUE <=>
              /\ TableGiven \/ HasConfigTable
              /\ sArgs.dataframe.kind = "frame"
              /\ sArgs.dataframe.rows >= 1
              /\ sCalls = <<[op |-> "to_sql", table |-> ExpectedTable,
                             if_exists |-> ExpectedPolicy]>>
              /\ sFault = None
        /\ (~TableGiven /\ ~HasConfigTable) => (sFault = None /\ sCalls = <<>>)

C19_Witness ==
    /\ WriteDone
    /\ sRet = TRUE
    /\ sArgs.dataframe.rows = MaxRows
    /\ sArgs.table_name = "orders"
    /\ sArgs.if_exists = "fail"
    /\ sCalls = <<[op |-> "to_sql", table |-> "orders", if_exists |-> "fail"]>>

(***************************************************************************)
(* Properties of the connection string (checked under ConstructSpec).      *)
(***************************************************************************)
\* the string create_engine was called with
ConnectionString == sCreateEngineCalls[1]

PasswordConfigured == sDestination.connection.password \notin {Absent, None, ""}

ConfiguredOr(v, default) == IF v = Absent THEN default ELSE v

\* the pieces after the scheme: user[:password]@host:port/database
CredentialForm(cs, user, password, port) ==
    LET host == ConfiguredOr(sDestination.connection.host, "localhost")
        database == ConfiguredOr(sDestination.connection.database,
                                 ConfiguredOr(sDestination.database_name, ""))
    IN IF PasswordConfigured
       THEN SubSeq(cs, 2, Len(cs)) = <<user, ":", password, "@", host, ":", port, "/", database>>
       ELSE SubSeq(cs, 2, Len(cs)) = <<user, "@", host, ":", port, "/", database>>

\* C14: for each supported db_type the connection string starts with the
\* documented scheme; for postgresql and mssql it reads
\* user:password@host:port/database when a non-empty password is configured
\* and user@host:port/database, the '@' right after the user, when the
\* password is absent or empty (mssql credentials percent-encoded).
C14_ConnectionStringForm ==
    sCreateEngineCalls # <<>> =>
        LET cs == ConnectionString
            t == Lower(sDestination.db_type)
            conn == sDestination.connection
        IN /\ Len(sCreateEngineCalls) = 1
           /\ t \in SupportedDbTypes
           /\ t = SQLITE => cs[1] = "sqlite:///"
           /\ t = POSTGRESQL =>
                 /\ cs[1] = "postgresql://"
                 /\ CredentialForm(cs, ConfiguredOr(conn.user, "postgres"), conn.password,
                                   ConfiguredOr(conn.port, "5432"))
           /\ t = MSSQL =>
                 /\ cs[1] = "mssql+pymssql://"
                 /\ CredentialForm(cs, QuotePlus(ConfiguredOr(conn.user, "root")),
                                   QuotePlus(conn.password), ConfiguredOr(conn.port, "1433"))

C14_Witness ==
    /\ sPhase = "constructed"
    /\ sDestination.db_type = MSSQL
    /\ sDestination.connection.password = ""
    /\ sCreateEngineCalls =
          << <<"mssql+pymssql://", "u%40x", "@", "localhost", ":", "1433", "/", "mydb">> >>

(***************************************************************************)
(* Properties of inspection, close and the Sink's fields (SinkSpec).       *)
(***************************************************************************)
\* what has_table and get_columns reported to the last get_table_info
ReportedExists == Len(sCalls) >= 2 /\ sCalls[2].exists
ReportedColumns == sCalls[3].columns

\* C15: get_table_info never raises; it returns None when the table does
\* not exist and when inspection raises; otherwise it returns table_name,
\* the column names in the order the metadata query reported them, and
\* column_count equal to the number of those columns.
C15_TableInfo ==
    sOp = "get_table_info" =>
        /\ sRaised = None
        /\ (sFault # None \/ ~ReportedExists) => sRet = <<>>
        /\ (sFault = None /\ ReportedExists) =>
              /\ Len(sRet) = 1
              /\ DOMAIN sRet[1] = {"table_name", "columns", "column_count"}
              /\ sRet[1].table_name = sArgs.table_name
              /\ Len(sRet[1].columns) = Len(ReportedColumns)
              /\ \A i \in DOMAIN ReportedColumns : sRet[1].columns[i] = ReportedColumns[i].name
              /\ sRet[1].column_count = Len(sRet[1].columns)

C15_Witness ==
    /\ sOp = "get_table_info"
    /\ sArgs.table_name = "orders"
    /\ sFault = None
    /\ sRet = <<[table_name |-> "orders", columns |-> <<"name", "id">>, column_count |-> 2]>>

\* C16: close never raises; each call on a constructed Sink invokes the
\* dispose of the engine handle exactly once, and an exception raised by
\* dispose is swallowed, also when close is repeated or follows a failed
\* operation.
C16_CloseNeverRaises ==
    sOp = "close" =>
        /\ sRaised = None
        /\ sCalls = <<"dispose">>
        /\ sRet = None

C16_Witness ==
    /\ sOp = "close"
    /\ sFault = "Exception"
    /\ sRaised = None
    /\ sCalls = <<"dispose">>

\* C18: no operation of a constructed Sink reassigns the engine handle,
\* db_type, database_name, the connection details or the destination
\* config; the handle is still set after close.
C18_SinkFieldsFixed ==
    [][sPhase = "constructed" =>
          /\ sPhase' = "constructed"
          /\ sEngine' = sEngine
          /\ sEngine' # None
          /\ sDbType' = sDbType
          /\ sDatabaseName' = sDatabaseName
          /\ sConn' = sConn
          /\ sDestination' = sDestination]_vars

C18_Witness ==
    /\ sOp = "close"
    /\ sPhase = "constructed"
    /\ sEngine = "engine"
    /\ sConn = sDestination.connection
    /\ sDbType = MSSQL

(***************************************************************************)
(* Properties of the Tabular Reader (checked under ReaderSpec).            *)
(***************************************************************************)
ReaderDone == rOp # "none"

MissingFile == rPath # None /\ rPath \notin files

\* the tabular data came back: a DataFrame, or the success payload that
\* carries the rows
ReturnedData == rRet.kind = "frame" \/ (rRet.kind = "dict" /\ rRet.status = "success")

\* C17: load_csv never raises for any path; on a missing file it returns
\* {status: "failed", error} with "File not found" and the path in the
\* error; on any other exception {status: "failed", error: <message>};
\* only a successful read returns the tabular data.
C17_ReaderNeverRaises ==
    ReaderDone =>
        /\ rRaised = None
        /\ MissingFile =>
              /\ rRet.kind = "dict"
              /\ rRet.status = "failed"
              /\ rRet.error = <<"File not found: ", rPath>>
        /\ (rFault # None /\ ~MissingFile) =>
              /\ rRet.kind = "dict"
              /\ rRet.status = "failed"
              /\ rRet.error = <<rFault>>
        /\ ReturnedData <=> rFault = None
        /\ ReturnedData => (rPath \in files /\ rRet.rows = csvRows)

C17_Witness ==
    /\ rOp = "read_csv.load_csv"
    /\ rPath = "missing.csv"
    /\ rRaised = None
    /\ rRet.status = "failed"
    /\ rRet.error = <<"File not found: ", "missing.csv">>

====
